---- MODULE Spec2Model ----
(***************************************************************************)
(* Model of two pieces of client-side orchestration of the workers-sdk:    *)
(*   - the mTLS certificate commands of wrangler (api + `cert` commands),  *)
(*     as exercised by the test suite src/unnamed/part_000;                *)
(*   - the deploy step of create-cloudflare,                               *)
(*     src/packages/create-cloudflare/src/deploy.ts.                       *)
(* One behaviour of the model is one invocation: Init chooses the call     *)
(* (cmd) and its inputs, the actions run it to completion.                 *)
(***************************************************************************)
EXTENDS Integers, Sequences, FiniteSets, TLC

VARIABLES
    cmd,            \* the call under way
    pc,             \* position inside that call
    argId,          \* --id of `cert delete`
    argName,        \* --name of `cert delete` / the name given to getMTlsCertificateByName
    certs,          \* what the registry's list endpoint answers
    getResp,        \* what the registry's get endpoint answers
    confirmResult,  \* what the operator answers to the confirmation
    files,          \* paths that exist on disk
    calls,          \* requests received by the registry, per endpoint
    reads,          \* paths read from disk, in order
    prompts,        \* confirmations asked of the operator
    stdout,         \* lines logged
    stderr,         \* errors logged
    thrown,         \* the error the call rejected with (NoError: none)
    result,         \* the certificate the call resolved to / returned
    node,           \* the configuration tree given to hasBinding
    hbResult,       \* what hasBinding returned
    ctx,            \* the C3Context fields runDeploy uses
    tempDirs,       \* how many temporary directories runDeploy has made
    spawned,        \* how many times the deploy subprocess was run
    exitCode,       \* exit status of the deploy subprocess
    outputFile,     \* contents of WRANGLER_OUTPUT_FILE_PATH after the subprocess
    outputReads,    \* how many times the output file was read
    extracted,      \* the value of `url` at deploy.ts:141
    args,           \* ctx.args: deploy (Undefined, "true" or "false") and open
    answer,         \* what the operator answers when asked whether to deploy
    loginSuccess,   \* what wranglerLogin resolves to
    offerCalls,     \* what offerToDeploy has called: config reads, questions,
                    \* logins, account choices
    status,         \* the status lines offerToDeploy has written
    deployable,     \* what isDeployable returned
    offerResult,    \* what offerToDeploy returned
    attempts,       \* reachability checks made by poll
    success,        \* what poll returned
    polled,         \* the urls given to poll
    opened          \* the urls opened in the browser

certVars   == <<argId, argName, certs, getResp, confirmResult, files, calls,
                reads, prompts, stdout, stderr, result>>
gateVars   == <<node, hbResult>>
deployVars == <<ctx, tempDirs, spawned, exitCode, outputFile, outputReads,
                extracted>>
offerVars  == <<args, answer, loginSuccess, offerCalls, status, deployable,
                offerResult>>
browserVars == <<attempts, success, polled, opened>>
flowVars   == <<offerVars, browserVars>>
vars       == <<cmd, pc, thrown, certVars, gateVars, deployVars, flowVars>>

\* JavaScript's undefined
Undefined == "undefined"
\* no error was thrown
NoError == <<>>

Range(s) == {s[i] : i \in DOMAIN s}

(***************************************************************************)
(* Bounds                                                                  *)
(***************************************************************************)
\* longest answer of the list endpoint
MaxCerts == 2
\* nesting depth of the configuration trees
MaxDepth == 2
\* most keys (or array elements) of one node of a configuration tree
MaxKeys == 2
\* most lines of the deploy output file
MaxLines == 2
\* the retry budget of poll: most reachability checks of one call
MaxPollAttempts == 3

(***************************************************************************)
(* mTLS certificates: the registry as the tests mock it                    *)
(***************************************************************************)
CertNames == {"my-cert", "cert one"}
CertIds   == {"1234", "5678"}
Certs     == [id : CertIds, name : CertNames]
CertLists == UNION {[1..n -> Certs] : n \in 0..MaxCerts}

NoCalls == [list |-> 0, get |-> 0, delete |-> 0, post |-> 0]
\* no certificate
NoCert == [id |-> Undefined, name |-> Undefined]

\* the list endpoint: answers the configured certificates, whatever the name
\* filter of the request is
mockGetMTlsCertificates(filterName) == certs

\* the get endpoint: answers the configured certificate, whatever :certId is
mockGetMTlsCertificate(certId) == getResp

\* error messages, as the sequence of their parts
ErrNotFound(name) == <<"certificate not found with name \"", name, "\"">>
ErrManyMatch(name) == <<"multiple certificates found with name \"", name, "\"">>
ErrMustProvide == <<"Must provide --id or --name.">>
ErrCantProvideBoth == <<"Can't provide both --id and --name.">>
ErrCouldNotRead(path) == <<"Could not read file: ", path>>

\* getMTlsCertificateByName(accountId, name): one list request filtered by
\* name; the outcome is decided by how many certificates the answer holds
\* [ok, cert, error]
\* a resolution that compares the name field of what was listed
getMTlsCertificateByNameRevalidating(listed, name) ==
    LET same == SelectSeq(listed, LAMBDA c : c.name = name)
    IN IF Len(same) = 0
       THEN [ok |-> FALSE, cert |-> NoCert, error |-> ErrNotFound(name)]
       ELSE IF Len(same) > 1
       THEN [ok |-> FALSE, cert |-> NoCert, error |-> ErrManyMatch(name)]
       ELSE [ok |-> TRUE, cert |-> same[1], error |-> NoError]

\* a resolution that takes the first of several
getMTlsCertificateByNameNoMany(listed, name) ==
    IF Len(listed) = 0
    THEN [ok |-> FALSE, cert |-> NoCert, error |-> ErrNotFound(name)]
    ELSE [ok |-> TRUE, cert |-> listed[1], error |-> NoError]

getMTlsCertificateByName(listed, name) ==
    IF Len(listed) = 0
    THEN [ok |-> FALSE, cert |-> NoCert, error |-> ErrNotFound(name)]
    ELSE IF Len(listed) > 1
    THEN [ok |-> FALSE, cert |-> NoCert, error |-> ErrManyMatch(name)]
    ELSE [ok |-> TRUE, cert |-> listed[1], error |-> NoError]

\* ---- api: getMTlsCertificateByName("some-account-id", name, true) ----
GetByName ==
    /\ cmd = "getByName" /\ pc = "start"
    /\ calls' = [calls EXCEPT !.list = @ + 1]
    /\ LET r == getMTlsCertificateByName(mockGetMTlsCertificates(argName), argName)
       IN /\ result' = r.cert
          /\ thrown' = r.error
    /\ pc' = "done"
    /\ UNCHANGED <<cmd, argId, argName, certs, getResp, confirmResult, files,
                   reads, prompts, stdout, stderr, gateVars, flowVars, deployVars>>

\* ---- command: wrangler cert delete [--id ID] [--name NAME] ----
\* a handler that does not check its selectors
DeleteCheckArgsLax ==
    /\ cmd = "delete" /\ pc = "start"
    /\ pc' = "resolve"
    /\ UNCHANGED <<cmd, thrown, certVars, gateVars, flowVars, deployVars>>

\* exactly one selector is required; nothing else happens without it
DeleteCheckArgs ==
    /\ cmd = "delete" /\ pc = "start"
    /\ IF argId = Undefined /\ argName = Undefined
       THEN /\ stderr' = Append(stderr, ErrMustProvide)
            /\ pc' = "done"
       ELSE IF argId # Undefined /\ argName # Undefined
       THEN /\ stderr' = Append(stderr, ErrCantProvideBoth)
            /\ pc' = "done"
       ELSE /\ stderr' = stderr
            /\ pc' = "resolve"
    /\ UNCHANGED <<cmd, thrown, argId, argName, certs, getResp, confirmResult,
                   files, calls, reads, prompts, stdout, result, gateVars, flowVars,
                   deployVars>>

\* a resolution by name that takes the first of several
DeleteResolveFirstMatch ==
    /\ cmd = "delete" /\ pc = "resolve"
    /\ IF argId # Undefined
       THEN /\ calls' = [calls EXCEPT !.get = @ + 1]
            /\ result' = mockGetMTlsCertificate(argId)
            /\ thrown' = thrown
            /\ pc' = "confirm"
       ELSE LET r == getMTlsCertificateByNameNoMany(
                         mockGetMTlsCertificates(argName), argName)
            IN /\ calls' = [calls EXCEPT !.list = @ + 1]
               /\ result' = r.cert
               /\ thrown' = r.error
               /\ pc' = IF r.ok THEN "confirm" ELSE "done"
    /\ UNCHANGED <<cmd, argId, argName, certs, getResp, confirmResult, files,
                   reads, prompts, stdout, stderr, gateVars, flowVars, deployVars>>

\* the target is looked up by id (get endpoint) or resolved by name
DeleteResolve ==
    /\ cmd = "delete" /\ pc = "resolve"
    /\ IF argId # Undefined
       THEN /\ calls' = [calls EXCEPT !.get = @ + 1]
            /\ result' = mockGetMTlsCertificate(argId)
            /\ thrown' = thrown
            /\ pc' = "confirm"
       ELSE LET r == getMTlsCertificateByName(
                         mockGetMTlsCertificates(argName), argName)
            IN /\ calls' = [calls EXCEPT !.list = @ + 1]
               /\ result' = r.cert
               /\ thrown' = r.error
               /\ pc' = IF r.ok THEN "confirm" ELSE "done"
    /\ UNCHANGED <<cmd, argId, argName, certs, getResp, confirmResult, files,
                   reads, prompts, stdout, stderr, gateVars, flowVars, deployVars>>

\* "Are you sure you want to delete certificate ID (NAME)?"
ConfirmText(cert) ==
    IF cert.name = Undefined
    THEN <<"Are you sure you want to delete certificate ", cert.id, "?">>
    ELSE <<"Are you sure you want to delete certificate ", cert.id,
           " (", cert.name, ")?">>

DeletedText(cert) ==
    IF cert.name = Undefined
    THEN <<"Deleted certificate ", cert.id, " successfully">>
    ELSE <<"Deleted certificate ", cert.id, " (", cert.name, ")",
           " successfully">>

DeleteConfirm ==
    /\ cmd = "delete" /\ pc = "confirm"
    /\ prompts' = Append(prompts, ConfirmText(result))
    /\ IF confirmResult
       THEN /\ pc' = "delete"
            /\ stdout' = stdout
       ELSE /\ pc' = "done"
            /\ stdout' = Append(stdout, <<"Not deleting">>)
    /\ UNCHANGED <<cmd, thrown, argId, argName, certs, getResp, confirmResult,
                   files, calls, reads, stderr, result, gateVars, flowVars, deployVars>>

DeleteSend ==
    /\ cmd = "delete" /\ pc = "delete"
    /\ calls' = [calls EXCEPT !.delete = @ + 1]
    /\ stdout' = Append(stdout, DeletedText(result))
    /\ pc' = "done"
    /\ UNCHANGED <<cmd, thrown, argId, argName, certs, getResp, confirmResult,
                   files, reads, prompts, stderr, result, gateVars, flowVars, deployVars>>

\* ---- api: upload from disk ----
CertPath == "cert.pem"
KeyPath == "key.pem"
CaCertPath == "caCert.pem"

\* readFileSync(path): the contents, or ParseError "Could not read file: path"
readFileSync(path) ==
    IF path \in files
    THEN [ok |-> TRUE, error |-> NoError]
    ELSE [ok |-> FALSE, error |-> ErrCouldNotRead(path)]

\* a read of the certificate chain file whose failure is ignored
UploadReadCertUnchecked ==
    /\ cmd = "upload" /\ pc = "start"
    /\ reads' = Append(reads, CertPath)
    /\ thrown' = thrown
    /\ pc' = "readKey"
    /\ UNCHANGED <<cmd, argId, argName, certs, getResp, confirmResult, files,
                   calls, prompts, stdout, stderr, result, gateVars, flowVars, deployVars>>

\* uploadMTlsCertificateFromFs: the certificate chain file is read first
UploadReadCert ==
    /\ cmd = "upload" /\ pc = "start"
    /\ reads' = Append(reads, CertPath)
    /\ LET r == readFileSync(CertPath)
       IN /\ thrown' = r.error
          /\ pc' = IF r.ok THEN "readKey" ELSE "done"
    /\ UNCHANGED <<cmd, argId, argName, certs, getResp, confirmResult, files,
                   calls, prompts, stdout, stderr, result, gateVars, flowVars, deployVars>>

\* ... then the private key file
UploadReadKey ==
    /\ cmd = "upload" /\ pc = "readKey"
    /\ reads' = Append(reads, KeyPath)
    /\ LET r == readFileSync(KeyPath)
       IN /\ thrown' = r.error
          /\ pc' = IF r.ok THEN "post" ELSE "done"
    /\ UNCHANGED <<cmd, argId, argName, certs, getResp, confirmResult, files,
                   calls, prompts, stdout, stderr, result, gateVars, flowVars, deployVars>>

\* uploadCaCertificateFromFs: the CA chain file is the only file
UploadCaRead ==
    /\ cmd = "uploadCa" /\ pc = "start"
    /\ reads' = Append(reads, CaCertPath)
    /\ LET r == readFileSync(CaCertPath)
       IN /\ thrown' = r.error
          /\ pc' = IF r.ok THEN "post" ELSE "done"
    /\ UNCHANGED <<cmd, argId, argName, certs, getResp, confirmResult, files,
                   calls, prompts, stdout, stderr, result, gateVars, flowVars, deployVars>>

\* the upload request (POST mtls_certificates); the registry answers id 1234
UploadPost ==
    /\ cmd \in {"upload", "uploadCa"} /\ pc = "post"
    /\ calls' = [calls EXCEPT !.post = @ + 1]
    /\ result' = [id |-> "1234", name |-> argName]
    /\ pc' = "done"
    /\ UNCHANGED <<cmd, thrown, argId, argName, certs, getResp, confirmResult,
                   files, reads, prompts, stdout, stderr, gateVars, flowVars, deployVars>>

(***************************************************************************)
(* create-cloudflare: the configuration tree and hasBinding                *)
(***************************************************************************)
\* A node of the parsed configuration (the result of jsoncParse or
\* TOML.parse): kind is what `typeof`/null tell about it, entries are its own
\* enumerable properties in Object.keys order (the indices, for an array).
Leaf(kind) == [kind |-> kind, entries |-> <<>>]
Leaves == {Leaf("null"), Leaf("string")}

ObjectKeys == {"name", "assets", "binding", "bindings"}
IndexKey(i) == <<"0", "1", "2", "3">>[i]

\* the key sequences of a mapping (distinct keys) or of an array (indices)
KeySeqs(kind, n) ==
    IF kind = "array"
    THEN {[i \in 1..n |-> IndexKey(i)]}
    ELSE {ks \in [1..n -> ObjectKeys] : \A i, j \in 1..n : ks[i] = ks[j] => i = j}

\* the shapes of a node: its kind, its keys and the position of the one
\* value that may be nested (the other values are strings)
Shapes ==
    {[kind |-> l.kind, keys |-> <<>>, at |-> 0] : l \in Leaves}
    \cup UNION {{[kind |-> k, keys |-> ks, at |-> p] :
                    ks \in KeySeqs(k, n), p \in 1..n} :
                <<k, n>> \in {"object", "array"} \X (0..MaxKeys)}
    \cup {[kind |-> k, keys |-> <<>>, at |-> 0] : k \in {"object", "array"}}

RECURSIVE Entries(_, _, _)
Entries(n, shape, v) ==
    IF n = 0
    THEN <<>>
    ELSE Append(Entries(n - 1, shape, v),
                [key |-> shape.keys[n],
                 val |-> IF n = shape.at THEN v ELSE Leaf("string")])

\* the node of that shape whose nested value is v
Build(shape, v) ==
    [kind |-> shape.kind, entries |-> Entries(Len(shape.keys), shape, v)]

\* the trees of depth at most d
RECURSIVE Nodes(_)
Nodes(d) ==
    IF d = 0
    THEN Leaves
    ELSE {Build(shape, v) : shape \in Shapes, v \in Nodes(d - 1)}

IsContainer(n) == n.kind \in {"object", "array"}

\* hasBinding(node), deploy.ts:178-193; HasBindingFrom(n, i) is the for loop
\* from the i-th key of Object.keys(n) on
RECURSIVE hasBinding(_), HasBindingFrom(_, _), HasBindingFromAllKeys(_, _)

\* a loop that goes on to the next key when the recursion finds nothing
HasBindingFromAllKeys(n, i) ==
    IF i > Len(n.entries)
    THEN FALSE
    ELSE LET key == n.entries[i].key
         IN IF key = "assets"
            THEN HasBindingFromAllKeys(n, i + 1)
            ELSE IF key = "binding" \/ key = "bindings"
            THEN TRUE
            ELSE \/ hasBinding(n.entries[i].val)
                 \/ HasBindingFromAllKeys(n, i + 1)

HasBindingFrom(n, i) ==
    IF i > Len(n.entries)
    THEN FALSE
    ELSE LET key == n.entries[i].key
         IN IF key = "assets"
            THEN HasBindingFrom(n, i + 1)
            ELSE IF key = "binding" \/ key = "bindings"
            THEN TRUE
            ELSE hasBinding(n.entries[i].val)

hasBinding(n) ==
    IF ~IsContainer(n)
    THEN FALSE
    ELSE HasBindingFrom(n, 1)

\* ---- call: hasBinding(node) ----
CallHasBinding ==
    /\ cmd = "hasBinding" /\ pc = "start"
    /\ hbResult' = hasBinding(node)
    /\ pc' = "done"
    /\ UNCHANGED <<cmd, thrown, certVars, node, flowVars, deployVars>>

(***************************************************************************)
(* create-cloudflare: runDeploy                                            *)
(***************************************************************************)
\* Strings are sequences of tokens; the concatenation of the tokens is the
\* string.  "://" and "." are tokens of their own, and no other token holds
\* a ":" , a "/" followed by "/", or a ".", so that splitting on "://" and on
\* "." and matching the literal parts of the regular expression can be done
\* token by token.
Str(tokens) == [t |-> "string", s |-> tokens]
JsUndefined == [t |-> "undefined", s |-> <<>>]
JsNumber == [t |-> "number", s |-> <<>>]

UrlWorkers == <<"https", "://", "foo", ".", "workers", ".", "dev">>
UrlPreview == <<"https", "://", "abcd1234", ".", "myproj", ".", "pages", ".", "dev">>
UrlPages == <<"https", "://", "myproj", ".", "pages", ".", "dev">>

\* the strings the output records carry
DeployStrings ==
    {UrlWorkers, UrlPreview, UrlPages,
     <<>>,
     <<"http", "://", "foo", ".", "workers", ".", "dev">>,
     <<"https", "://", "foo", ".", "com">>,
     <<"https", "://", ".", "pages", ".", "dev">>,
     <<"see ", "https", "://", "foo", ".", "workers", ".", "dev">>,
     <<"https", "://", "foo", ".", "workers", ".", "dev", "/", "path">>,
     <<"https", "://", "evil", ".", "com", "/", "x", ".", "pages", ".", "dev">>,
     <<"https", "://", "a", "://", "b", ".", "pages", ".", "dev">>,
     <<"https", "://", "foo", ".", "pages", ".", "dev", "/", "x", ".", "workers", ".", "dev">>}

DeployValues == {Str(u) : u \in DeployStrings} \cup {JsUndefined, JsNumber}

\* A line of the output file: what JSON.parse makes of it.
\*   parse = "blank": the empty line; "error": JSON.parse throws;
\*   "null": the JSON value null; "object": a record with the fields below
\*   (targets: the list, empty when the field is absent; url: the field).
Line(parse, type, targets, url) ==
    [parse |-> parse, type |-> type, targets |-> targets, url |-> url]

OutputLines ==
    {Line(p, Undefined, <<>>, JsUndefined) : p \in {"blank", "error", "null"}}
    \cup {Line("object", "other", <<>>, JsUndefined)}
    \cup {Line("object", "deploy", <<>>, JsUndefined)}
    \cup {Line("object", "deploy", <<v>>, JsUndefined) : v \in DeployValues}
    \cup {Line("object", "deploy", <<v, Str(UrlPages)>>, JsUndefined) :
            v \in {Str(UrlWorkers), JsUndefined}}
    \cup {Line("object", "pages-deploy", <<>>, v) : v \in DeployValues}

OutputFiles ==
    {[exists |-> FALSE, lines |-> <<>>]}
    \cup {[exists |-> TRUE, lines |-> ls] :
            ls \in UNION {[1..n -> OutputLines] : n \in 0..MaxLines}}

ErrNoAccount == <<"Failed to read Cloudflare account.">>
ErrNoUrl == <<"Failed to find deployment url.">>
ErrCommand == <<"deploy command failed">>

\* entries.find((entry) => entry.type === type), from the i-th entry on: the
\* index of the first entry of that type, 0 if there is none, -1 if the
\* callback throws on the way (reading .type of null is a TypeError)
RECURSIVE FindType(_, _, _)
FindType(entries, type, i) ==
    IF i > Len(entries) THEN 0
    ELSE IF entries[i].parse = "null" THEN -1
    ELSE IF entries[i].type = type THEN i
    ELSE FindType(entries, type, i + 1)

\* record?.targets?.[0]
FirstTarget(record) ==
    IF Len(record.targets) = 0 THEN JsUndefined ELSE record.targets[1]

\* deploy.ts:141-143
\*   entries.find(type === "deploy")?.targets?.[0] ??
\*   entries.find(type === "pages-deploy")?.url
\* [throws, value]; the right operand of ?? is evaluated only when the left
\* one is undefined
\* an extraction with the two operands of ?? exchanged
ExtractUrlPagesFirst(entries) ==
    LET p == FindType(entries, "pages-deploy", 1)
        url == IF p <= 0 THEN JsUndefined ELSE entries[p].url
        d == FindType(entries, "deploy", 1)
        target == IF d <= 0 THEN JsUndefined ELSE FirstTarget(entries[d])
    IN IF p = -1 THEN [throws |-> TRUE, value |-> JsUndefined]
       ELSE IF url.t # "undefined" THEN [throws |-> FALSE, value |-> url]
       ELSE IF d = -1 THEN [throws |-> TRUE, value |-> JsUndefined]
       ELSE [throws |-> FALSE, value |-> target]

ExtractUrl(entries) ==
    LET d == FindType(entries, "deploy", 1)
        target == IF d <= 0 THEN JsUndefined ELSE FirstTarget(entries[d])
        p == FindType(entries, "pages-deploy", 1)
        url == IF p <= 0 THEN JsUndefined ELSE entries[p].url
    IN IF d = -1 THEN [throws |-> TRUE, value |-> JsUndefined]
       ELSE IF target.t # "undefined" THEN [throws |-> FALSE, value |-> target]
       ELSE IF p = -1 THEN [throws |-> TRUE, value |-> JsUndefined]
       ELSE [throws |-> FALSE, value |-> url]

IsSuffixAt(s, j) ==
    /\ j >= 1 /\ j + 3 <= Len(s)
    /\ s[j] = "." /\ s[j + 1] \in {"pages", "workers"}
    /\ s[j + 2] = "." /\ s[j + 3] = "dev"

\* where /https:\/\/.+\.(pages|workers)\.dev/ can start in s, and how far
\* the greedy .+ then reaches
MatchStarts(s) ==
    {i \in 1..Len(s) :
        /\ i + 1 <= Len(s) /\ s[i] = "https" /\ s[i + 1] = "://"
        /\ \E j \in (i + 3)..Len(s) : IsSuffixAt(s, j)}

Min(S) == CHOOSE x \in S : \A y \in S : x <= y
Max(S) == CHOOSE x \in S : \A y \in S : x >= y

\* url.match(deployedUrlRegex)?.[0]: the leftmost, longest match; <<>> if none
RegexMatch(s) ==
    IF MatchStarts(s) = {}
    THEN <<>>
    ELSE LET i == Min(MatchStarts(s))
             j == Max({k \in (i + 3)..Len(s) : IsSuffixAt(s, k)})
         IN SubSeq(s, i, j + 3)

\* String.prototype.split(sep) for a one-token separator
RECURSIVE Split(_, _)
Split(s, sep) ==
    IF \A i \in 1..Len(s) : s[i] # sep
    THEN <<s>>
    ELSE LET i == Min({k \in 1..Len(s) : s[k] = sep})
         IN <<SubSeq(s, 1, i - 1)>> \o Split(SubSeq(s, i + 1, Len(s)), sep)

\* Array.prototype.join(sep)
RECURSIVE Join(_, _)
Join(parts, sep) ==
    IF Len(parts) = 0 THEN <<>>
    ELSE IF Len(parts) = 1 THEN parts[1]
    ELSE parts[1] \o <<sep>> \o Join(Tail(parts), sep)

\* Array.prototype.slice(-n)
SliceLast(parts, n) ==
    IF Len(parts) <= n THEN parts ELSE SubSeq(parts, Len(parts) - n + 1, Len(parts))

EndsWithPagesDev(s) == Len(s) >= 4 /\ IsSuffixAt(s, Len(s) - 3) /\ s[Len(s) - 2] = "pages"

\* deploy.ts:155-161: a pages url keeps the last three labels of its hostname
NormalizeUrl(url) ==
    IF EndsWithPagesDev(url)
    THEN LET parts == Split(url, "://")
             proto == parts[1]
             hostname == IF Len(parts) >= 2 THEN parts[2] ELSE <<Undefined>>
             hostnameWithoutSHA1 == Join(SliceLast(Split(hostname, "."), 3), ".")
         IN proto \o <<"://">> \o hostnameWithoutSHA1
    ELSE url

\* ---- runDeploy(ctx), up to the subprocess ----
\* a start that does not look at the account
RunDeployStartNoCheck ==
    /\ cmd = "runDeploy" /\ pc = "start"
    /\ pc' = "mkdtemp"
    /\ UNCHANGED <<cmd, thrown, certVars, gateVars, flowVars, deployVars>>

\* deploy.ts:96-98: without an account id nothing else is done
RunDeployStart ==
    /\ cmd = "runDeploy" /\ pc = "start"
    /\ IF ctx.accountId = Undefined
       THEN /\ thrown' = ErrNoAccount
            /\ pc' = "done"
       ELSE /\ thrown' = thrown
            /\ pc' = "mkdtemp"
    /\ UNCHANGED <<cmd, certVars, gateVars, flowVars, deployVars>>

\* deploy.ts:116-119: the output file lies in a temporary directory made for
\* this call
MakeTempDir ==
    /\ cmd = "runDeploy" /\ pc = "mkdtemp"
    /\ tempDirs' = tempDirs + 1
    /\ pc' = "command"
    /\ UNCHANGED <<cmd, thrown, certVars, gateVars, flowVars, ctx, spawned, exitCode,
                   outputFile, outputReads, extracted>>

\* await runCommand(deployCmd, ...): the subprocess exits, having written
\* (or not) the output file
RunCommand ==
    /\ cmd = "runDeploy" /\ pc = "command"
    /\ \E code \in {0, 1}, file \in OutputFiles :
          /\ spawned' = spawned + 1
          /\ exitCode' = code
          /\ outputFile' = file
          /\ IF code # 0
             THEN /\ thrown' = ErrCommand
                  /\ pc' = "done"
             ELSE /\ thrown' = thrown
                  /\ pc' = "output"
    /\ UNCHANGED <<cmd, certVars, gateVars, flowVars, ctx, tempDirs, outputReads,
                   extracted>>

\* contents.split("\n").filter(Boolean): the empty lines are dropped
NonBlank(lines) == SelectSeq(lines, LAMBDA l : l.parse # "blank")

\* a try block that skips the lines JSON.parse rejects
TryBlockSkipsBadLines(file, deployment) ==
    LET failed == [ok |-> FALSE, url |-> JsUndefined, match |-> <<>>]
        entries == SelectSeq(NonBlank(file.lines), LAMBDA l : l.parse # "error")
        found == ExtractUrl(entries)
        url == found.value
        deployedUrlMatch == IF url.t = "string" THEN RegexMatch(url.s) ELSE <<>>
    IN IF ~file.exists THEN failed
       ELSE IF found.throws THEN failed
       ELSE IF url.t = "number" THEN [failed EXCEPT !.url = url]
       ELSE IF deployedUrlMatch = <<>> THEN [failed EXCEPT !.url = url]
       ELSE IF ~deployment.set THEN [failed EXCEPT !.url = url]
       ELSE [ok |-> TRUE, url |-> url, match |-> deployedUrlMatch]

\* deploy.ts:134-153, the try block: [ok, url, match]
\*   ok: no exception and the regular expression matched; url: the value of
\*   `url` (undefined when it was not reached); match: deployedUrlMatch[0]
TryBlock(file, deployment) ==
    LET failed == [ok |-> FALSE, url |-> JsUndefined, match |-> <<>>]
        entries == NonBlank(file.lines)
        found == ExtractUrl(entries)
        url == found.value
        deployedUrlMatch == IF url.t = "string" THEN RegexMatch(url.s) ELSE <<>>
    IN IF ~file.exists THEN failed                          \* readFile throws
       ELSE IF \E i \in 1..Len(entries) : entries[i].parse = "error"
       THEN failed                                          \* JSON.parse throws
       ELSE IF found.throws THEN failed                     \* entry.type of null
       ELSE IF url.t = "number" THEN [failed EXCEPT !.url = url]  \* url.match is no function
       ELSE IF deployedUrlMatch = <<>> THEN [failed EXCEPT !.url = url]
       ELSE IF ~deployment.set THEN [failed EXCEPT !.url = url]   \* ctx.deployment is undefined
       ELSE [ok |-> TRUE, url |-> url, match |-> deployedUrlMatch]

\* deploy.ts:134-161: after the subprocess, the try block and then the
\* normalisation of the recorded url
ReadOutput ==
    /\ cmd = "runDeploy" /\ pc = "output"
    /\ LET r == TryBlock(outputFile, ctx.deployment)
       IN /\ extracted' = r.url
          /\ IF r.ok
             THEN /\ thrown' = thrown
                  /\ ctx' = [ctx EXCEPT !.deployment.matched = r.match,
                                        !.deployment.url = NormalizeUrl(r.match)]
             ELSE /\ thrown' = ErrNoUrl
                  /\ ctx' = ctx
    /\ outputReads' = outputReads + 1
    /\ pc' = "done"
    /\ UNCHANGED <<cmd, certVars, gateVars, flowVars, tempDirs, spawned, exitCode,
                   outputFile>>

(***************************************************************************)
(* create-cloudflare: offerToDeploy                                        *)
(***************************************************************************)
NoOfferCalls == [config |-> 0, prompt |-> 0, login |-> 0, account |-> 0]
BindingsStatus ==
    <<"Bindings must be configured in ", "wrangler.toml",
      " before your application can be deployed">>

\* the parsed configurations offerToDeploy is run on
OfferConfigs == Nodes(1)

\* deploy.ts:84-91: the parsed wrangler.json or wrangler.toml
readWranglerConfig == node

\* deploy.ts:76-82
isDeployable(c) ==
    IF c.platform = "pages" THEN TRUE ELSE ~hasBinding(readWranglerConfig)

\* processArgument(ctx.args, "deploy", {type: "confirm", ...}): the argument
\* when it was given, else what the operator answers to the question
processArgument(a, reply) ==
    IF a.deploy # Undefined THEN a.deploy = "true" ELSE reply

\* a gate that reports but does not coerce the argument
OfferStartNoCoerce ==
    /\ cmd = "offerToDeploy" /\ pc = "start"
    /\ deployable' = isDeployable(ctx)
    /\ offerCalls' = IF ctx.platform = "pages" THEN offerCalls
                     ELSE [offerCalls EXCEPT !.config = @ + 1]
    /\ status' = IF isDeployable(ctx) THEN status
                 ELSE Append(status, BindingsStatus)
    /\ pc' = "ask"
    /\ UNCHANGED <<cmd, thrown, certVars, gateVars, deployVars, args, answer,
                   loginSuccess, offerResult, browserVars>>

\* deploy.ts:24-36: the gate; an undeployable project has its deploy
\* argument set to false
OfferStart ==
    /\ cmd = "offerToDeploy" /\ pc = "start"
    /\ deployable' = isDeployable(ctx)
    /\ offerCalls' = IF ctx.platform = "pages" THEN offerCalls
                     ELSE [offerCalls EXCEPT !.config = @ + 1]
    /\ args' = IF isDeployable(ctx) THEN args
               ELSE [args EXCEPT !.deploy = "false"]
    /\ status' = IF isDeployable(ctx) THEN status
                 ELSE Append(status, BindingsStatus)
    /\ pc' = "ask"
    /\ UNCHANGED <<cmd, thrown, certVars, gateVars, deployVars, answer,
                   loginSuccess, offerResult, browserVars>>

\* deploy.ts:38-56: the deploy choice; the deployment record is initialised
\* once the choice is affirmative
OfferAsk ==
    /\ cmd = "offerToDeploy" /\ pc = "ask"
    /\ offerCalls' = IF args.deploy = Undefined
                     THEN [offerCalls EXCEPT !.prompt = @ + 1]
                     ELSE offerCalls
    /\ LET shouldDeploy == processArgument(args, answer)
       IN IF ~shouldDeploy
          THEN /\ offerResult' = FALSE
               /\ ctx' = ctx
               /\ pc' = "returned"
          ELSE /\ offerResult' = offerResult
               /\ ctx' = [ctx EXCEPT !.deployment =
                             [set |-> TRUE, url |-> <<>>, matched |-> <<>>]]
               /\ pc' = "login"
    /\ UNCHANGED <<cmd, thrown, certVars, gateVars, tempDirs, spawned, exitCode,
                   outputFile, outputReads, extracted, args, answer,
                   loginSuccess, status, deployable, browserVars>>

\* deploy.ts:58-62
OfferLogin ==
    /\ cmd = "offerToDeploy" /\ pc = "login"
    /\ offerCalls' = [offerCalls EXCEPT !.login = @ + 1]
    /\ IF ~loginSuccess
       THEN offerResult' = FALSE /\ pc' = "returned"
       ELSE offerResult' = offerResult /\ pc' = "account"
    /\ UNCHANGED <<cmd, thrown, certVars, gateVars, deployVars, args, answer,
                   loginSuccess, status, deployable, browserVars>>

\* deploy.ts:64-66: chooseAccount sets the account of the context
OfferChooseAccount ==
    /\ cmd = "offerToDeploy" /\ pc = "account"
    /\ offerCalls' = [offerCalls EXCEPT !.account = @ + 1]
    /\ ctx' = [ctx EXCEPT !.accountId = "some-account-id"]
    /\ offerResult' = TRUE
    /\ pc' = "returned"
    /\ UNCHANGED <<cmd, thrown, certVars, gateVars, tempDirs, spawned, exitCode,
                   outputFile, outputReads, extracted, args, answer,
                   loginSuccess, status, deployable, browserVars>>

\* the caller of offerToDeploy: the Deploy Runner comes next if it returned
\* true, and not otherwise
CallerAfterOffer ==
    /\ cmd = "offerToDeploy" /\ pc = "returned"
    /\ IF offerResult
       THEN cmd' = "runDeploy" /\ pc' = "start"
       ELSE cmd' = cmd /\ pc' = "done"
    /\ UNCHANGED <<thrown, certVars, gateVars, deployVars, flowVars>>

(***************************************************************************)
(* create-cloudflare: maybeOpenBrowser                                     *)
(***************************************************************************)
\* the deployment records runDeploy can leave: no url (it failed or did not
\* run), or the normalised match of some string
RecordedDeployments ==
    {[set |-> TRUE, url |-> <<>>, matched |-> <<>>]}
    \cup {[set |-> TRUE, url |-> NormalizeUrl(RegexMatch(u)),
           matched |-> RegexMatch(u)] :
            u \in {v \in DeployStrings : RegexMatch(v) # <<>>}}

\* deploy.ts:165-166: poll is called only for a recorded url
MaybeOpenBrowserStart ==
    /\ cmd = "maybeOpenBrowser" /\ pc = "start"
    /\ IF ctx.deployment.url # <<>>
       THEN polled' = Append(polled, ctx.deployment.url) /\ pc' = "poll"
       ELSE polled' = polled /\ pc' = "done"
    /\ UNCHANGED <<cmd, thrown, certVars, gateVars, deployVars, offerVars,
                   attempts, success, opened>>

\* poll(url): one reachability check; it resolves to true on the first
\* success, and to false once the retry budget is used up
PollCheck ==
    /\ cmd = "maybeOpenBrowser" /\ pc = "poll"
    /\ attempts < MaxPollAttempts
    /\ attempts' = attempts + 1
    /\ \E reachable \in BOOLEAN :
          IF reachable
          THEN success' = TRUE /\ pc' = "polled"
          ELSE IF attempts + 1 = MaxPollAttempts
          THEN success' = FALSE /\ pc' = "polled"
          ELSE success' = success /\ pc' = pc
    /\ UNCHANGED <<cmd, thrown, certVars, gateVars, deployVars, offerVars,
                   polled, opened>>

\* a continuation that opens the browser whenever the poll succeeded
AfterPollIgnoringOpen ==
    /\ cmd = "maybeOpenBrowser" /\ pc = "polled"
    /\ opened' = IF success
                 THEN Append(opened, ctx.deployment.url)
                 ELSE opened
    /\ pc' = "done"
    /\ UNCHANGED <<cmd, thrown, certVars, gateVars, deployVars, offerVars,
                   attempts, success, polled>>

\* deploy.ts:167-171
AfterPoll ==
    /\ cmd = "maybeOpenBrowser" /\ pc = "polled"
    /\ opened' = IF success /\ args.open
                 THEN Append(opened, ctx.deployment.url)
                 ELSE opened
    /\ pc' = "done"
    /\ UNCHANGED <<cmd, thrown, certVars, gateVars, deployVars, offerVars,
                   attempts, success, polled>>

(***************************************************************************)
(* Specifications                                                          *)
(***************************************************************************)
CertIdle ==
    /\ argId = Undefined /\ argName = Undefined
    /\ certs = <<>> /\ getResp = NoCert /\ confirmResult = FALSE
    /\ files = {} /\ calls = NoCalls /\ reads = <<>> /\ prompts = <<>>
    /\ stdout = <<>> /\ stderr = <<>> /\ result = NoCert

GateIdle == node = Leaf("null") /\ hbResult = FALSE

NoOutputFile == [exists |-> FALSE, lines |-> <<>>]
NoDeployment == [set |-> FALSE, url |-> <<>>, matched |-> <<>>]

DeployIdle ==
    /\ ctx = [accountId |-> Undefined, platform |-> "workers",
              deployment |-> NoDeployment]
    /\ tempDirs = 0 /\ spawned = 0 /\ exitCode = 0 /\ outputFile = NoOutputFile
    /\ outputReads = 0 /\ extracted = JsUndefined

NoArgs == [deploy |-> Undefined, open |-> FALSE]

OfferIdle ==
    /\ args = NoArgs /\ answer = FALSE /\ loginSuccess = FALSE
    /\ offerCalls = NoOfferCalls /\ status = <<>>
    /\ deployable = FALSE /\ offerResult = FALSE

BrowserIdle ==
    /\ attempts = 0 /\ success = FALSE /\ polled = <<>> /\ opened = <<>>

\* the certificate calls
InitCert ==
    /\ pc = "start" /\ thrown = NoError
    /\ calls = NoCalls /\ reads = <<>> /\ prompts = <<>>
    /\ stdout = <<>> /\ stderr = <<>> /\ result = NoCert
    /\ GateIdle /\ DeployIdle /\ OfferIdle /\ BrowserIdle
    /\ \/ /\ cmd = "getByName"
          /\ argId = Undefined /\ argName \in CertNames
          /\ certs \in CertLists
          /\ getResp = NoCert /\ confirmResult = FALSE /\ files = {}
       \/ /\ cmd = "delete"
          /\ argId \in {Undefined, "1234"}
          /\ argName \in {Undefined} \cup CertNames
          /\ certs \in CertLists
          /\ getResp \in [id : {"1234"}, name : {Undefined, "my-cert"}]
          /\ confirmResult \in BOOLEAN
          /\ files = {}
       \/ /\ cmd = "upload"
          /\ argId = Undefined /\ argName \in {Undefined, "my_cert"}
          /\ certs = <<>> /\ getResp = NoCert /\ confirmResult = FALSE
          /\ files \in SUBSET {CertPath, KeyPath}
       \/ /\ cmd = "uploadCa"
          /\ argId = Undefined /\ argName \in {Undefined, "my_cert"}
          /\ certs = <<>> /\ getResp = NoCert /\ confirmResult = FALSE
          /\ files \in SUBSET {CaCertPath}

NextCert ==
    \/ GetByName
    \/ DeleteCheckArgs
    \/ DeleteResolve
    \/ DeleteConfirm
    \/ DeleteSend
    \/ UploadReadCert
    \/ UploadReadKey
    \/ UploadCaRead
    \/ UploadPost

SpecCert == InitCert /\ [][NextCert]_vars

\* direct calls of hasBinding
InitGate ==
    /\ pc = "start" /\ thrown = NoError
    /\ CertIdle /\ DeployIdle /\ OfferIdle /\ BrowserIdle
    /\ cmd = "hasBinding"
    /\ \E shape \in Shapes, v \in Nodes(MaxDepth - 1) : node = Build(shape, v)
    /\ hbResult = FALSE

NextGate == CallHasBinding

SpecGate == InitGate /\ [][NextGate]_vars

\* runDeploy, called once offerToDeploy has returned true
InitDeploy ==
    /\ pc = "start" /\ thrown = NoError
    /\ CertIdle /\ GateIdle /\ OfferIdle /\ BrowserIdle
    /\ cmd = "runDeploy"
    /\ ctx \in [accountId : {Undefined, "some-account-id"},
                platform : {"pages", "workers"},
                deployment : {[set |-> TRUE, url |-> <<>>, matched |-> <<>>]}]
    /\ tempDirs = 0 /\ spawned = 0 /\ exitCode = 0 /\ outputFile = NoOutputFile
    /\ outputReads = 0 /\ extracted = JsUndefined

NextDeploy ==
    \/ RunDeployStart
    \/ MakeTempDir
    \/ RunCommand
    \/ ReadOutput

SpecDeploy == InitDeploy /\ [][NextDeploy]_vars

\* offerToDeploy, on a fresh context
InitOffer ==
    /\ pc = "start" /\ thrown = NoError
    /\ CertIdle /\ BrowserIdle
    /\ cmd = "offerToDeploy"
    /\ node \in OfferConfigs /\ hbResult = FALSE
    /\ ctx \in [accountId : {Undefined}, platform : {"pages", "workers"},
                deployment : {NoDeployment}]
    /\ tempDirs = 0 /\ spawned = 0 /\ exitCode = 0 /\ outputFile = NoOutputFile
    /\ outputReads = 0 /\ extracted = JsUndefined
    /\ args \in [deploy : {Undefined, "true", "false"}, open : {FALSE}]
    /\ answer \in BOOLEAN /\ loginSuccess \in BOOLEAN
    /\ offerCalls = NoOfferCalls /\ status = <<>>
    /\ deployable = FALSE /\ offerResult = FALSE

NextOffer ==
    \/ OfferStart
    \/ OfferAsk
    \/ OfferLogin
    \/ OfferChooseAccount
    \/ CallerAfterOffer

SpecOffer == InitOffer /\ [][NextOffer]_vars

\* maybeOpenBrowser, after runDeploy or without it
InitBrowser ==
    /\ pc = "start" /\ thrown = NoError
    /\ CertIdle /\ GateIdle
    /\ cmd = "maybeOpenBrowser"
    /\ ctx \in [accountId : {"some-account-id"}, platform : {"pages", "workers"},
                deployment : RecordedDeployments]
    /\ tempDirs = 0 /\ spawned = 0 /\ exitCode = 0 /\ outputFile = NoOutputFile
    /\ outputReads = 0 /\ extracted = JsUndefined
    /\ args \in [deploy : {"true"}, open : BOOLEAN]
    /\ answer = FALSE /\ loginSuccess = TRUE
    /\ offerCalls = NoOfferCalls /\ status = <<>>
    /\ deployable = TRUE /\ offerResult = TRUE
    /\ BrowserIdle

NextBrowser ==
    \/ MaybeOpenBrowserStart
    \/ PollCheck
    \/ AfterPoll

SpecBrowser == InitBrowser /\ [][NextBrowser]_vars

(***************************************************************************)
(* Properties of the certificate calls (SpecCert)                          *)
(***************************************************************************)
\* the listed certificates whose name field equals the queried name
NameMatches == SelectSeq(certs, LAMBDA c : c.name = argName)
NotFoundMessage == <<"certificate not found with name \"", argName, "\"">>
ManyFoundMessage == <<"multiple certificates found with name \"", argName, "\"">>
GetByNameDone == cmd = "getByName" /\ pc = "done"

C4_ExactlyOneSelector ==
    cmd = "delete" /\ (argId = Undefined <=> argName = Undefined) =>
        /\ calls = NoCalls /\ prompts = <<>> /\ stdout = <<>>
        /\ thrown = NoError
        /\ pc \in {"start", "done"}
        /\ pc = "done" /\ argId = Undefined =>
              stderr = <<<<"Must provide --id or --name.">>>>
        /\ pc = "done" /\ argId # Undefined =>
              stderr = <<<<"Can't provide both --id and --name.">>>>

C4_Witness ==
    /\ cmd = "delete" /\ pc = "done"
    /\ argId = "1234" /\ argName = "my-cert"
    /\ stderr = <<ErrCantProvideBoth>>

\* C5: the uploads from disk read their files before any request, the
\* certificate first and then the key: a missing certificate file fails with
\* 'Could not read file: cert.pem' without the key file being read, a missing
\* key file alone fails with 'Could not read file: key.pem', a missing CA
\* file with 'Could not read file: caCert.pem'; in each case no upload
\* request is sent, and one is sent only after every file was read.
C5_ReadBeforeUpload ==
    /\ cmd = "upload" =>
          /\ calls.post > 0 =>
                /\ {CertPath, KeyPath} \subseteq files
                /\ reads = <<"cert.pem", "key.pem">>
                /\ thrown = NoError
          /\ pc = "done" /\ CertPath \notin files =>
                /\ thrown = <<"Could not read file: ", "cert.pem">>
                /\ reads = <<"cert.pem">>
                /\ calls = NoCalls
          /\ pc = "done" /\ CertPath \in files /\ KeyPath \notin files =>
                /\ thrown = <<"Could not read file: ", "key.pem">>
                /\ reads = <<"cert.pem", "key.pem">>
                /\ calls = NoCalls
          /\ pc = "done" /\ {CertPath, KeyPath} \subseteq files =>
                calls = [NoCalls EXCEPT !.post = 1]
    /\ cmd = "uploadCa" =>
          /\ calls.post > 0 =>
                CaCertPath \in files /\ reads = <<"caCert.pem">> /\ thrown = NoError
          /\ pc = "done" /\ CaCertPath \notin files =>
                /\ thrown = <<"Could not read file: ", "caCert.pem">>
                /\ calls = NoCalls

C5_Witness ==
    /\ cmd = "upload" /\ pc = "done"
    /\ files = {}
    /\ thrown = ErrCouldNotRead(CertPath)
    /\ reads = <<CertPath>>
    /\ calls.post = 0

(***************************************************************************)
(* Properties of hasBinding (SpecGate)                                     *)
(***************************************************************************)
HasBindingDone == cmd = "hasBinding" /\ pc = "done"
BindingKeys == {"binding", "bindings"}
KeysOf(n) == {n.entries[i].key : i \in 1..Len(n.entries)}

\* C6: hasBinding returns true for every mapping that has a key named
\* 'binding' or 'bindings', wherever that key stands among the keys.
C6_TrueForAnyBindingKey ==
    HasBindingDone /\ node.kind = "object" /\ KeysOf(node) \cap BindingKeys # {} =>
        hbResult = TRUE

\* the first key of n that is not 'assets' (0: there is none)
FirstRemaining(n) ==
    LET rest == {i \in 1..Len(n.entries) : n.entries[i].key # "assets"}
    IN IF rest = {} THEN 0 ELSE CHOOSE i \in rest : \A j \in rest : i <= j

\* the first-key-only descent: the nodes visited from n, root first
RECURSIVE DescentPath(_)
DescentPath(n) ==
    IF ~IsContainer(n) \/ FirstRemaining(n) = 0
       \/ n.entries[FirstRemaining(n)].key \in BindingKeys
    THEN <<n>>
    ELSE <<n>> \o DescentPath(n.entries[FirstRemaining(n)].val)

\* does the descent end on a 'binding'/'bindings' key?
DescentFindsBinding(n) ==
    LET last == DescentPath(n)[Len(DescentPath(n))]
    IN /\ IsContainer(last)
       /\ FirstRemaining(last) # 0
       /\ last.entries[FirstRemaining(last)].key \in BindingKeys

\* is there a 'binding'/'bindings' key in n outside of every 'assets' subtree?
RECURSIVE BindingOutsideAssets(_)
BindingOutsideAssets(n) ==
    \E i \in 1..Len(n.entries) :
        /\ n.entries[i].key # "assets"
        /\ \/ n.entries[i].key \in BindingKeys
           \/ BindingOutsideAssets(n.entries[i].val)

DeployRead == cmd = "runDeploy" /\ pc = "done" /\ spawned = 1 /\ exitCode = 0
Records == NonBlank(outputFile.lines)
\* every line of the file was parsed to a record (none rejected, none null)
AllRecords ==
    /\ outputFile.exists
    /\ \A i \in 1..Len(Records) : Records[i].parse = "object"
OfType(type) == {i \in 1..Len(Records) : Records[i].type = type}
HasFirstTarget(i) ==
    Len(Records[i].targets) > 0 /\ Records[i].targets[1].t # "undefined"
First(S) == CHOOSE i \in S : \A j \in S : i <= j
FirstPagesUrl ==
    IF OfType("pages-deploy") = {} THEN JsUndefined
    ELSE Records[First(OfType("pages-deploy"))].url

\* C8, as stated: when some record of type 'deploy' has a first target, the
\* extracted value is the first target of such a record; otherwise it is the
\* url field of the first 'pages-deploy' record.
C8_AnyDeployRecord ==
    DeployRead /\ AllRecords =>
        IF \E i \in OfType("deploy") : HasFirstTarget(i)
        THEN \E i \in OfType("deploy") :
                HasFirstTarget(i) /\ extracted = Records[i].targets[1]
        ELSE extracted = FirstPagesUrl

\* C8, amended: when the first record of type 'deploy' has a first target,
\* that target is the extracted value, whatever 'pages-deploy' records there
\* are and whatever the order of the records; otherwise (no 'deploy' record,
\* or the first one without a target: later 'deploy' records are not looked
\* at) it is the url field of the first 'pages-deploy' record.  The one
\* record {type: 'deploy', targets: ['https://foo.workers.dev']} yields
\* https://foo.workers.dev.
C8_FirstDeployRecord ==
    /\ DeployRead /\ AllRecords =>
          IF OfType("deploy") # {} /\ HasFirstTarget(First(OfType("deploy")))
          THEN extracted = Records[First(OfType("deploy"))].targets[1]
          ELSE extracted = FirstPagesUrl
    /\ DeployRead /\ outputFile.exists
       /\ outputFile.lines =
            <<Line("object", "deploy",
                   <<Str(<<"https", "://", "foo", ".", "workers", ".", "dev">>)>>,
                   JsUndefined)>> =>
          /\ extracted = Str(<<"https", "://", "foo", ".", "workers", ".", "dev">>)
          /\ ctx.deployment.url = <<"https", "://", "foo", ".", "workers", ".", "dev">>
          /\ thrown = NoError

\* a 'pages-deploy' record first, the 'deploy' record after it
C8_Witness ==
    /\ DeployRead /\ AllRecords
    /\ Len(Records) = 2
    /\ Records[1].type = "pages-deploy" /\ Records[1].url = Str(UrlPreview)
    /\ Records[2].type = "deploy" /\ Records[2].targets = <<Str(UrlWorkers)>>
    /\ extracted = Str(UrlWorkers)
    /\ ctx.deployment.url = UrlWorkers

\* the file gives no url: it is missing or empty, one of its lines is
\* rejected by JSON.parse, or none of its records is of a recognised type
NoUrlToFind ==
    \/ ~outputFile.exists
    \/ Records = <<>>
    \/ \E i \in 1..Len(Records) : Records[i].parse = "error"
    \/ OfType("deploy") \cup OfType("pages-deploy") = {}

\* C9: once the subprocess has exited with status 0, runDeploy either
\* succeeds or fails with 'Failed to find deployment url.', and with no other
\* error; it fails so when the file is missing or empty, when any one line
\* is rejected by JSON.parse (whatever the other lines hold) and when no
\* record is of a recognised type; whenever it fails no url is recorded.
C9_OneErrorKind ==
    DeployRead =>
        /\ thrown \in {NoError, <<"Failed to find deployment url.">>}
        /\ NoUrlToFind => thrown = <<"Failed to find deployment url.">>
        /\ thrown # NoError =>
              ctx.deployment.url = <<>> /\ ctx.deployment.matched = <<>>

\* a rejected line beside a valid 'deploy' record
C9_Witness ==
    /\ DeployRead /\ outputFile.exists
    /\ Len(Records) = 2
    /\ Records[1].type = "deploy" /\ Records[1].targets = <<Str(UrlWorkers)>>
    /\ Records[2].parse = "error"
    /\ thrown = ErrNoUrl
    /\ ctx.deployment.url = <<>>

\* the host of a url: what stands between "https://" and the next "/" or ":"
RECURSIVE HostFrom(_, _)
HostFrom(s, i) ==
    IF i > Len(s) \/ s[i] \in {"/", "://"} THEN <<>>
    ELSE <<s[i]>> \o HostFrom(s, i + 1)
HostOf(s) == HostFrom(s, 3)
StartsWithHttps(s) == Len(s) >= 2 /\ s[1] = "https" /\ s[2] = "://"
HostOnDevDomain(s) ==
    LET h == HostOf(s)
    IN Len(h) >= 5 /\ IsSuffixAt(h, Len(h) - 3)

\* C10: runDeploy records a url only when the extracted value matches
\* https://<host>.(pages|workers).dev, and a value that does not match is
\* treated like no value ('Failed to find deployment url.', nothing
\* recorded); so the url recorded by a successful runDeploy starts with
\* 'https://' and its host ends in '.pages.dev' or '.workers.dev'.
C10_RecordedUrlOnDevDomain ==
    cmd = "runDeploy" =>
        /\ ctx.deployment.url # <<>> =>
              /\ DeployRead /\ thrown = NoError
              /\ extracted.t = "string" /\ RegexMatch(extracted.s) # <<>>
        /\ DeployRead /\ (extracted.t # "string" \/ RegexMatch(extracted.s) = <<>>) =>
              thrown = <<"Failed to find deployment url.">> /\ ctx.deployment.url = <<>>
        /\ DeployRead /\ thrown = NoError =>
              /\ StartsWithHttps(ctx.deployment.url)
              /\ HostOnDevDomain(ctx.deployment.url)

\* the labels of the host of a url, and what follows the host
HostLabels(s) == Split(HostOf(s), ".")
AfterHost(s) == SubSeq(s, 3 + Len(HostOf(s)), Len(s))
HostEndsInPagesDev(s) == EndsWithPagesDev(HostOf(s))
\* the url with only the last three labels of its host
LastThreeHostLabels(s) ==
    <<"https", "://">> \o Join(SliceLast(HostLabels(s), 3), ".") \o AfterHost(s)

\* C11: the url recorded by a successful runDeploy is the matched url with
\* only the last three dot-separated labels of its host when that host ends
\* in '.pages.dev' (https://abcd1234.myproj.pages.dev becomes
\* https://myproj.pages.dev); it is the matched url itself when the host is
\* on another domain; and normalising the recorded url again changes nothing.
C11_KeepsLastThreeHostLabels ==
    DeployRead /\ thrown = NoError =>
        /\ HostEndsInPagesDev(ctx.deployment.matched) =>
              ctx.deployment.url = LastThreeHostLabels(ctx.deployment.matched)
        /\ ~HostEndsInPagesDev(ctx.deployment.matched) =>
              ctx.deployment.url = ctx.deployment.matched
        /\ ctx.deployment.matched = UrlPreview => ctx.deployment.url = UrlPages
        /\ NormalizeUrl(ctx.deployment.url) = ctx.deployment.url

\* C12: the steps of runDeploy come in one order and a failure ends the
\* call: without an account id it fails with 'Failed to read Cloudflare
\* account.' and no temporary directory is made, no subprocess run, no file
\* read; the temporary directory is made before the subprocess is run; the
\* subprocess is run at most once; when it exits with a non-zero status the
\* call fails, the output file is not read and no url is recorded; the
\* output file is read (once), and a url recorded, only after the subprocess
\* has exited with status 0.
C12_StepsInOrder ==
    cmd = "runDeploy" =>
        /\ ctx.accountId = Undefined =>
              /\ tempDirs = 0 /\ spawned = 0 /\ outputReads = 0
              /\ pc \in {"start", "done"}
              /\ pc = "done" => thrown = <<"Failed to read Cloudflare account.">>
        /\ tempDirs <= 1 /\ spawned <= 1 /\ outputReads <= 1
        /\ spawned = 1 => tempDirs = 1
        /\ spawned = 1 /\ exitCode # 0 =>
              /\ pc = "done" /\ thrown # NoError
              /\ thrown # <<"Failed to find deployment url.">>
              /\ outputReads = 0
              /\ ctx.deployment.url = <<>>
        /\ outputReads = 1 => spawned = 1 /\ exitCode = 0 /\ pc = "done"
        /\ ctx.deployment.url # <<>> => outputReads = 1 /\ thrown = NoError
        /\ pc = "done" /\ thrown = NoError => outputReads = 1

\* the subprocess has failed although it wrote a file with a url in it
C12_Witness ==
    /\ cmd = "runDeploy" /\ pc = "done"
    /\ tempDirs = 1 /\ spawned = 1 /\ exitCode = 1
    /\ outputFile.exists /\ Len(outputFile.lines) = 1
    /\ outputFile.lines[1].targets = <<Str(UrlWorkers)>>
    /\ outputReads = 0
    /\ thrown = ErrCommand

(***************************************************************************)
(* Properties of offerToDeploy (SpecOffer)                                 *)
(***************************************************************************)
\* the gate of offerToDeploy has been passed
GatePassed == cmd = "runDeploy" \/ pc # "start"
\* offerToDeploy is over
OfferOver == cmd = "runDeploy" \/ pc \in {"returned", "done"}
\* the deploy choice is affirmative: --deploy was given as true, or it was
\* not given and the operator said yes
ChoiceAffirmative ==
    \/ args.deploy = "true"
    \/ args.deploy = Undefined /\ answer /\ offerCalls.prompt = 1

\* C13: the gate comes first and guards the rest: on the 'pages' platform
\* isDeployable is true and no configuration is read; on any other platform
\* the configuration is read once and isDeployable is true exactly when
\* hasBinding of it is false.  For an undeployable project offerToDeploy sets
\* the deploy argument to false, asks nothing, returns false, and neither
\* initialises the deployment record nor logs in nor chooses an account, and
\* the caller does not go on to runDeploy.  The login comes only after an
\* affirmative deploy choice, the choice of account only after a successful
\* login, and offerToDeploy returns true only after both.
C13_GateGuardsDeploy ==
    /\ GatePassed /\ ctx.platform = "pages" =>
          deployable = TRUE /\ offerCalls.config = 0
    /\ GatePassed /\ ctx.platform # "pages" =>
          deployable = ~hasBinding(node) /\ offerCalls.config = 1
    /\ ~GatePassed => offerCalls = NoOfferCalls /\ ~ctx.deployment.set
    /\ GatePassed /\ ~deployable =>
          /\ args.deploy = "false"
          /\ cmd = "offerToDeploy" /\ pc \in {"ask", "returned", "done"}
          /\ offerResult = FALSE
          /\ ~ctx.deployment.set /\ ctx.accountId = Undefined
          /\ offerCalls.prompt = 0 /\ offerCalls.login = 0
          /\ offerCalls.account = 0
    /\ ctx.deployment.set => GatePassed /\ deployable /\ ChoiceAffirmative
    /\ offerCalls.login > 0 =>
          offerCalls.login = 1 /\ ChoiceAffirmative /\ ctx.deployment.set
    /\ offerCalls.account > 0 =>
          offerCalls.account = 1 /\ offerCalls.login = 1 /\ loginSuccess
    /\ OfferOver =>
          offerResult = (deployable /\ ChoiceAffirmative /\ loginSuccess)
    /\ offerResult =>
          /\ loginSuccess /\ offerCalls.login = 1 /\ offerCalls.account = 1
          /\ ctx.accountId # Undefined
    /\ cmd = "runDeploy" => offerResult /\ deployable /\ ctx.deployment.set

\* a worker whose configuration begins with a binding: the operator would
\* have said yes and the login would have succeeded
C13_Witness ==
    /\ cmd = "offerToDeploy" /\ pc = "done"
    /\ ctx.platform = "workers"
    /\ node.kind = "object" /\ Len(node.entries) > 0
    /\ node.entries[1].key = "bindings"
    /\ ~deployable /\ status = <<BindingsStatus>>
    /\ answer /\ loginSuccess
    /\ offerResult = FALSE
    /\ offerCalls = [NoOfferCalls EXCEPT !.config = 1]

(***************************************************************************)
(* Properties of maybeOpenBrowser (SpecBrowser)                            *)
(***************************************************************************)
\* poll was called and has returned
PollReturned == polled # <<>> /\ pc \in {"polled", "done"}

\* what holds in every state of maybeOpenBrowser
BrowserOnlyAfterPoll ==
    cmd = "maybeOpenBrowser" =>
        /\ opened # <<>> =>
              /\ ctx.deployment.url # <<>>
              /\ polled = <<ctx.deployment.url>> /\ success
              /\ args.open
              /\ opened = <<ctx.deployment.url>>
        /\ ctx.deployment.url = <<>> =>
              polled = <<>> /\ attempts = 0 /\ opened = <<>>
        /\ attempts <= MaxPollAttempts
        /\ PollReturned /\ ~success =>
              attempts = MaxPollAttempts /\ opened = <<>>
        /\ thrown = NoError
        /\ pc = "done" /\ ctx.deployment.url # <<>> => PollReturned

\* C14: the browser is opened only on a recorded deployment url, after the
\* poll of that url returned true and when the operator asked for it
\* (args.open); when the retry budget of the poll is used up the poll
\* returns false and throws nothing, and maybeOpenBrowser ends normally
\* without opening a browser; no step of maybeOpenBrowser, the poll
\* included, changes the deployment record.
C14_OpenOnlyAfterPoll ==
    /\ []BrowserOnlyAfterPoll
    /\ [][cmd = "maybeOpenBrowser" => ctx' = ctx]_vars

\* the url answered at the last check of the budget, and the browser opened
C14_Witness ==
    /\ cmd = "maybeOpenBrowser" /\ pc = "done"
    /\ ctx.deployment.url = UrlPages /\ ctx.deployment.matched = UrlPreview
    /\ attempts = MaxPollAttempts /\ success
    /\ args.open
    /\ opened = <<UrlPages>>

====
